---- MODULE Spec2Model ----
(***************************************************************************)
(* Model of ct_to_slack.go: the Lambda Handler that walks the records of   *)
(* an S3 event, fetches and decodes the CT leaf entry stored under each    *)
(* key with the "certs/" prefix, and posts a Slack webhook message for     *)
(* each entry that carries an X.509 certificate.                           *)
(*                                                                         *)
(* Strings the handler computes on (keys, DNS names, the message text) are *)
(* sequences of one-character strings, so that HasPrefix, PathUnescape,    *)
(* Join and Sprintf are computed, not assumed.  The collaborators (config  *)
(* loader, SSM, S3, the CT and X.509 parsers, certinfo, Slack) answer      *)
(* nondeterministically; what they were asked and what they answered is    *)
(* recorded in the history variable trace.                                 *)
(***************************************************************************)
EXTENDS Integers, Sequences, FiniteSets, TLC

VARIABLES
    evt,          \* evt.Records: the batch, a sequence of [bucket, key]
    pc,           \* the statement Handler executes next
    ret,          \* NotReturned, "nil", or the error Handler returned
    webhookURL,   \* the local webhookURL
    idx,          \* position of rec in evt.Records (0 before the loop)
    key,          \* the local key
    resp,         \* the object GetObject returned
    rawEntry,     \* the decoded ct.LeafEntry
    logEntry,     \* the *ct.LogEntry
    cert,         \* the *x509.Certificate
    certInfoTxt,  \* the certinfo text
    messageText,  \* the rendered message
    open,         \* positions of the records whose resp.Body is not closed
    trace         \* history: collaborator calls and log lines, in order

vars == <<evt, pc, ret, webhookURL, idx, key, resp, rawEntry, logEntry, cert,
          certInfoTxt, messageText, open, trace>>

-----------------------------------------------------------------------------
(* Bounds of the model *)

MaxRecords == 2     \* longest batch
MaxNames == 2       \* longest SAN DNS list of a certificate

-----------------------------------------------------------------------------
(* Strings *)

\* var prefix = "certs/"
prefix == <<"c", "e", "r", "t", "s", "/">>

\* a prefix test that compares the lengths only
HasPrefixLen(s, p) == Len(s) >= Len(p)

\* strings.HasPrefix(s, p)
HasPrefix(s, p) == Len(s) >= Len(p) /\ SubSeq(s, 1, Len(p)) = p

HexDigits == {"0", "1", "2", "3", "4", "5", "6", "7", "8", "9",
              "a", "b", "c", "d", "e", "f", "A", "B", "C", "D", "E", "F"}

\* net/url ishex
ishex(c) == c \in HexDigits

\* net/url unhex
unhex(c) ==
    CASE c = "0" -> 0 [] c = "1" -> 1 [] c = "2" -> 2 [] c = "3" -> 3
      [] c = "4" -> 4 [] c = "5" -> 5 [] c = "6" -> 6 [] c = "7" -> 7
      [] c = "8" -> 8 [] c = "9" -> 9
      [] c \in {"a", "A"} -> 10 [] c \in {"b", "B"} -> 11
      [] c \in {"c", "C"} -> 12 [] c \in {"d", "D"} -> 13
      [] c \in {"e", "E"} -> 14 [] c \in {"f", "F"} -> 15

\* the character with a given byte value (the bytes the modelled keys use)
Chr(n) ==
    CASE n = 47 -> "/" [] n = 97 -> "a" [] n = 99 -> "c" [] n = 101 -> "e"
      [] n = 111 -> "o" [] n = 114 -> "r" [] n = 115 -> "s" [] n = 116 -> "t"
      [] n = 37 -> "%" [] OTHER -> "?"

\* url.PathUnescape(s): each %XX becomes the byte XX; a % that is not followed
\* by two hex digits is an EscapeError and the result is the empty string.
RECURSIVE unescape(_)
unescape(s) ==
    IF s = <<>> THEN [ok |-> TRUE, s |-> <<>>]
    ELSE IF Head(s) = "%"
         THEN IF Len(s) < 3 \/ ~ishex(s[2]) \/ ~ishex(s[3])
              THEN [ok |-> FALSE, s |-> <<>>]
              ELSE LET r == unescape(SubSeq(s, 4, Len(s)))
                   IN  IF r.ok
                       THEN [ok |-> TRUE,
                             s |-> <<Chr(16 * unhex(s[2]) + unhex(s[3]))>> \o r.s]
                       ELSE r
         ELSE LET r == unescape(Tail(s))
              IN  IF r.ok THEN [ok |-> TRUE, s |-> <<Head(s)>> \o r.s] ELSE r

\* key, _ = url.PathUnescape(key): the error dropped
PathUnescapeIgnoreErr(s) == [ok |-> TRUE, s |-> unescape(s).s]

PathUnescape(s) == unescape(s)

\* a join that writes the separator after every element
RECURSIVE JoinTrailing(_, _)
JoinTrailing(elems, sep) ==
    IF Len(elems) = 0 THEN <<>>
    ELSE elems[1] \o sep \o JoinTrailing(Tail(elems), sep)

\* strings.Join(elems, sep)
RECURSIVE Join(_, _)
Join(elems, sep) ==
    IF Len(elems) = 0 THEN <<>>
    ELSE IF Len(elems) = 1 THEN elems[1]
    ELSE elems[1] \o sep \o Join(Tail(elems), sep)

CommaSpace == <<",", " ">>

Digit(n) == CASE n = 0 -> "0" [] n = 1 -> "1" [] n = 2 -> "2" [] n = 3 -> "3"
              [] n = 4 -> "4" [] n = 5 -> "5" [] n = 6 -> "6" [] n = 7 -> "7"
              [] n = 8 -> "8" [] n = 9 -> "9"

\* t.Format(time.RFC3339) of midnight UTC on 1 January of year t
FormatRFC3339(t) ==
    <<Digit((t \div 1000) % 10), Digit((t \div 100) % 10),
      Digit((t \div 10) % 10), Digit(t % 10), "-01-01T00:00:00Z">>

\* the literal pieces of the fmt.Sprintf format string (line breaks written
\* as spaces, the code fence as brackets)
LitTitleKey == "*New Certificate Detected* *Key:* "
LitDNS == " *DNS Names:* "
LitNotBefore == " *Not Before:* "
LitNotAfter == " *Not After:* "
LitDetails == " *Certificate Details:* [[["
LitEnd == "]]]"

\* fmt.Sprintf of the message format with its five arguments
Sprintf(k, dnsNames, notBefore, notAfter, txt) ==
    <<LitTitleKey>> \o k \o <<LitDNS>> \o dnsNames \o <<LitNotBefore>> \o notBefore
        \o <<LitNotAfter>> \o notAfter \o <<LitDetails>> \o txt \o <<LitEnd>>

-----------------------------------------------------------------------------
(* Inputs and collaborators *)

RECURSIVE SeqsUpTo(_, _)
SeqsUpTo(S, n) ==
    IF n = 0 THEN {<<>>}
    ELSE LET shorter == SeqsUpTo(S, n - 1)
         IN  shorter \cup {Append(q, x) : q \in shorter, x \in S}

\* rec.S3.Object.Key values of the model
Keys == {
    <<"c", "e", "r", "t", "s", "/", "%", "6", "1">>,     \* certs/%61
    <<"c", "e", "r", "t", "s", "/", "%", "z", "z">>,     \* certs/%zz
    <<"o", "/", "a">>,                                   \* o/a
    <<"%", "6", "3", "e", "r", "t", "s", "/", "a">>,     \* %63erts/a
    <<"o", "/", "%", "z">> }                             \* o/%z

Bucket == "ct-log"

Records == {[bucket |-> Bucket, key |-> k] : k \in Keys}

\* SAN DNS names
Names == {<<"a">>, <<"b", ".", "c">>}

DNSLists == SeqsUpTo(Names, MaxNames)

\* What an object of the store holds: a body that is not JSON; a leaf entry
\* that LogEntryFromLeaf rejects; a precertificate entry; an X.509 entry whose
\* bytes x509.ParseCertificate rejects; one certinfo rejects; a certificate.
NoObject == [kind |-> "none", dns |-> <<>>]

Objects ==
    {[kind |-> k, dns |-> <<>>] :
        k \in {"corrupt", "badleaf", "precert", "badder", "badtext"}}
    \cup {[kind |-> "cert", dns |-> d] : d \in DNSLists}

\* the values the webhook_url parameter may hold
URLs == {"https://hooks.example/T1"}

NoURL == ""

NotReturned == "running"

NoText == <<>>

Event(op, i, k, obj, url, text, ok) ==
    [op |-> op, idx |-> i, key |-> k, obj |-> obj, url |-> url, text |-> text,
     ok |-> ok]

\* a line written through lgr
Log(msg, i) == Event("log", i, <<>>, NoObject, msg, NoText, TRUE)

-----------------------------------------------------------------------------
(* Handler *)

locals == <<key, resp, rawEntry, logEntry, cert, certInfoTxt, messageText>>

NoLogEntry == [X509Cert |-> "nil", obj |-> NoObject]

NoCert == [DNSNames |-> <<>>, NotBefore |-> 0, NotAfter |-> 0]

\* the validity window of the modelled certificates (years)
CertNotBefore == 2024
CertNotAfter == 2025

Init ==
    /\ evt \in [Records : SeqsUpTo(Records, MaxRecords)]
    /\ pc = "LoadDefaultConfig"
    /\ ret = NotReturned
    /\ webhookURL = NoURL
    /\ idx = 0
    /\ key = <<>>
    /\ resp = NoObject
    /\ rawEntry = NoObject
    /\ logEntry = NoLogEntry
    /\ cert = NoCert
    /\ certInfoTxt = NoText
    /\ messageText = NoText
    /\ open = {}
    /\ trace = <<>>

\* continue where the code returns
ReturnContinue(e) == pc' = "range" /\ UNCHANGED ret

\* return e
Return(e) == pc' = "done" /\ ret' = e

\* a configuration error that is logged only, like the error of kv.Get
LoadDefaultConfigLogOnly ==
    /\ pc = "LoadDefaultConfig"
    /\ \E ok \in BOOLEAN :
         trace' = Append(trace, Event("LoadDefaultConfig", 0, <<>>, NoObject, "",
                                      NoText, ok))
    /\ pc' = "Get"
    /\ UNCHANGED <<evt, ret, webhookURL, idx, locals, open>>

\* config.LoadDefaultConfig; an error is returned at once
LoadDefaultConfig ==
    /\ pc = "LoadDefaultConfig"
    /\ \E ok \in BOOLEAN :
         /\ trace' = Append(trace, Event("LoadDefaultConfig", 0, <<>>, NoObject, "",
                                         NoText, ok))
         /\ IF ok
            THEN pc' = "Get" /\ UNCHANGED ret
            ELSE Return("ConfigError")
    /\ UNCHANGED <<evt, webhookURL, idx, locals, open>>

\* the lookup retried until it succeeds
GetDoneRetry(failed) == pc' = (IF failed THEN "Get" ELSE "range") /\ UNCHANGED ret

\* a failed lookup returned to the caller
GetDoneAbort(failed) ==
    IF failed THEN pc' = "done" /\ ret' = "GetError"
    ELSE pc' = "range" /\ UNCHANGED ret

\* if err != nil { lgr.Error("get_webhook_url_err") }: nothing is returned,
\* the loop starts whatever kv.Get answered
GetDone(failed) == pc' = "range" /\ UNCHANGED ret

\* webhookURL, err := kv.Get("webhook_url")
Get ==
    /\ pc = "Get"
    /\ \E u \in URLs \cup {NoURL} :
         /\ webhookURL' = u
         /\ trace' = IF u = NoURL
                     THEN trace \o <<Event("Get", 0, <<>>, NoObject, u, NoText, FALSE),
                                     Log("get_webhook_url_err", 0)>>
                     ELSE Append(trace, Event("Get", 0, <<>>, NoObject, u, NoText, TRUE))
         /\ GetDone(u = NoURL)
    /\ UNCHANGED <<evt, idx, locals, open>>

\* a loop that takes the first record again and again
NextIndexRestart(i) == 1

\* the position of the record the loop takes after the one at i
NextIndex(i) == i + 1

\* for _, rec := range evt.Records: the next record, with fresh locals;
\* return nil after the last one
Range ==
    /\ pc = "range"
    /\ IF idx < Len(evt.Records)
       THEN /\ idx' = NextIndex(idx)
            /\ key' = evt.Records[idx'].key
            /\ pc' = "HasPrefix"
            /\ UNCHANGED ret
       ELSE /\ Return("nil")
            /\ UNCHANGED <<idx, key>>
    /\ resp' = NoObject
    /\ rawEntry' = NoObject
    /\ logEntry' = NoLogEntry
    /\ cert' = NoCert
    /\ certInfoTxt' = NoText
    /\ messageText' = NoText
    /\ UNCHANGED <<evt, webhookURL, open, trace>>

\* the prefix test made on the unescaped key
FilterKeyUnescaped(k) == unescape(k).s

\* the string the prefix test reads: key as taken from the record
FilterKey(k) == k

\* if !strings.HasPrefix(key, prefix) { log; continue }
CheckPrefix ==
    /\ pc = "HasPrefix"
    /\ IF ~HasPrefix(FilterKey(key), prefix)
       THEN /\ trace' = Append(trace, Log("skipping_file_outside_prefix", idx))
            /\ pc' = "range"
       ELSE /\ pc' = "PathUnescape"
            /\ UNCHANGED trace
    /\ UNCHANGED <<evt, ret, webhookURL, idx, locals, open>>

\* key, err = url.PathUnescape(key); an error is returned
Unescape ==
    /\ pc = "PathUnescape"
    /\ LET r == PathUnescape(key)
       IN  /\ key' = r.s
           /\ IF r.ok
              THEN pc' = "GetObject" /\ UNCHANGED ret
              ELSE Return("EscapeError")
    /\ UNCHANGED <<evt, webhookURL, idx, resp, rawEntry, logEntry, cert,
                   certInfoTxt, messageText, open, trace>>

\* resp, err := s3client.GetObject(bucket, key); an error is logged and returned
GetObject ==
    /\ pc = "GetObject"
    /\ \/ /\ trace' = trace \o
                <<Event("GetObject", idx, key, NoObject, "", NoText, FALSE),
                  Log("get obj err", idx)>>
          /\ Return("GetObjectError")
          /\ UNCHANGED <<resp, open>>
       \/ \E o \in Objects :
            /\ resp' = o
            /\ open' = open \cup {idx}
            /\ trace' = Append(trace,
                               Event("GetObject", idx, key, o, "", NoText, TRUE))
            /\ pc' = "Decode"
            /\ UNCHANGED ret
    /\ UNCHANGED <<evt, webhookURL, idx, key, rawEntry, logEntry, cert,
                   certInfoTxt, messageText>>

\* err = json.NewDecoder(resp.Body).Decode(&rawEntry); an error is logged and
\* returned, with resp.Body still open
Decode ==
    /\ pc = "Decode"
    /\ IF resp.kind = "corrupt"
       THEN /\ trace' = Append(trace, Log("decode json err", idx))
            /\ Return("DecodeError")
            /\ UNCHANGED rawEntry
       ELSE /\ rawEntry' = resp
            /\ pc' = "Close"
            /\ UNCHANGED <<ret, trace>>
    /\ UNCHANGED <<evt, webhookURL, idx, key, resp, logEntry, cert,
                   certInfoTxt, messageText, open>>

\* resp.Body.Close()
Close ==
    /\ pc = "Close"
    /\ open' = open \ {idx}
    /\ trace' = Append(trace, Event("Close", idx, key, NoObject, "", NoText, TRUE))
    /\ pc' = "LogEntryFromLeaf"
    /\ UNCHANGED <<evt, ret, webhookURL, idx, locals>>

\* logEntry, err := ct.LogEntryFromLeaf(0, &rawEntry); an error is logged and
\* returned.  A precertificate entry leaves logEntry.X509Cert nil.
LogEntryFromLeaf ==
    /\ pc = "LogEntryFromLeaf"
    /\ IF rawEntry.kind = "badleaf"
       THEN /\ trace' = Append(trace, Log("load log entry leaf err", idx))
            /\ Return("LeafError")
            /\ UNCHANGED logEntry
       ELSE /\ logEntry' = [X509Cert |-> IF rawEntry.kind = "precert"
                                         THEN "nil" ELSE "raw",
                            obj |-> rawEntry]
            /\ pc' = "CheckX509Cert"
            /\ UNCHANGED <<ret, trace>>
    /\ UNCHANGED <<evt, webhookURL, idx, key, resp, rawEntry, cert,
                   certInfoTxt, messageText, open>>

\* if logEntry.X509Cert == nil { lgr.Error(...); return nil }
CheckX509Cert ==
    /\ pc = "CheckX509Cert"
    /\ IF logEntry.X509Cert = "nil"
       THEN /\ trace' = Append(trace, Log("expected x509 cert but got none", idx))
            /\ Return("nil")
       ELSE /\ pc' = "ParseCertificate"
            /\ UNCHANGED <<ret, trace>>
    /\ UNCHANGED <<evt, webhookURL, idx, locals, open>>

\* cert, err := x509.ParseCertificate(logEntry.X509Cert.Raw); an error is
\* logged and returned
ParseCertificate ==
    /\ pc = "ParseCertificate"
    /\ IF logEntry.obj.kind = "badder"
       THEN /\ trace' = Append(trace, Log("x509 parse err", idx))
            /\ Return("ParseError")
            /\ UNCHANGED cert
       ELSE /\ cert' = [DNSNames |-> logEntry.obj.dns,
                        NotBefore |-> CertNotBefore, NotAfter |-> CertNotAfter]
            /\ pc' = "CertificateText"
            /\ UNCHANGED <<ret, trace>>
    /\ UNCHANGED <<evt, webhookURL, idx, key, resp, rawEntry, logEntry,
                   certInfoTxt, messageText, open>>

\* certInfoTxt, err := certinfo.CertificateText(cert); an error is logged and
\* returned
CertificateText ==
    /\ pc = "CertificateText"
    /\ IF logEntry.obj.kind = "badtext"
       THEN /\ trace' = Append(trace, Log("cert txt err", idx))
            /\ Return("CertTextError")
            /\ UNCHANGED certInfoTxt
       ELSE /\ certInfoTxt' = <<"Certificate:">> \o Join(cert.DNSNames, <<" ">>)
            /\ pc' = "Sprintf"
            /\ UNCHANGED <<ret, trace>>
    /\ UNCHANGED <<evt, webhookURL, idx, key, resp, rawEntry, logEntry, cert,
                   messageText, open>>

\* dnsNames := strings.Join(cert.DNSNames, ", ")
dnsNames == Join(cert.DNSNames, CommaSpace)

\* messageText := fmt.Sprintf(...)
Format ==
    /\ pc = "Sprintf"
    /\ messageText' = Sprintf(key, dnsNames, FormatRFC3339(cert.NotBefore),
                              FormatRFC3339(cert.NotAfter), certInfoTxt)
    /\ pc' = "PostWebhook"
    /\ UNCHANGED <<evt, ret, webhookURL, idx, key, resp, rawEntry, logEntry,
                   cert, certInfoTxt, open, trace>>

\* the first argument of slack.PostWebhook
PostURL == webhookURL

\* what slack.PostWebhook may answer for a URL: no request can be made to the
\* empty URL
PostOutcomes(url) == IF url = NoURL THEN {FALSE} ELSE BOOLEAN

\* a failed delivery returned to the caller
PostDoneAbort(failed) ==
    IF failed THEN pc' = "done" /\ ret' = "SlackError"
    ELSE pc' = "range" /\ UNCHANGED ret

\* a failed delivery tried again
PostDoneRetry(failed) ==
    pc' = (IF failed THEN "PostWebhook" ELSE "range") /\ UNCHANGED ret

\* if err != nil { lgr.Error("slack_webhook_err") }: nothing is returned, the
\* loop goes on
PostDone(failed) == pc' = "range" /\ UNCHANGED ret

\* the message rendered and never sent
PostWebhookDryRun ==
    /\ pc = "PostWebhook"
    /\ pc' = "range"
    /\ UNCHANGED <<evt, ret, webhookURL, idx, locals, open, trace>>

\* err = slack.PostWebhook(webhookURL, &slack.WebhookMessage{Text: messageText})
PostWebhook ==
    /\ pc = "PostWebhook"
    /\ \E ok \in PostOutcomes(PostURL) :
         /\ trace' = IF ok
                     THEN Append(trace, Event("PostWebhook", idx, key, NoObject,
                                              PostURL, messageText, TRUE))
                     ELSE trace \o
                          <<Event("PostWebhook", idx, key, NoObject, PostURL,
                                  messageText, FALSE),
                            Log("slack_webhook_err", idx)>>
         /\ PostDone(~ok)
    /\ UNCHANGED <<evt, webhookURL, idx, locals, open>>

Next ==
    \/ LoadDefaultConfig
    \/ Get
    \/ Range
    \/ CheckPrefix
    \/ Unescape
    \/ GetObject
    \/ Decode
    \/ Close
    \/ LogEntryFromLeaf
    \/ CheckX509Cert
    \/ ParseCertificate
    \/ CertificateText
    \/ Format
    \/ PostWebhook

Spec == Init /\ [][Next]_vars

TypeOK ==
    /\ pc \in {"LoadDefaultConfig", "Get", "range", "HasPrefix", "PathUnescape",
               "GetObject", "Decode", "Close", "LogEntryFromLeaf", "CheckX509Cert",
               "ParseCertificate", "CertificateText", "Sprintf", "PostWebhook",
               "done"}
    /\ idx \in 0..Len(evt.Records)
    /\ (pc = "done") = (ret # NotReturned)
-----------------------------------------------------------------------------
(* Reading the history *)

N == Len(evt.Records)

RawKey(j) == evt.Records[j].key

\* the key of record j begins with c e r t s /  (written out, independently of
\* HasPrefix)
BeginsWithCerts(s) ==
    /\ Len(s) >= 6
    /\ s[1] = "c" /\ s[2] = "e" /\ s[3] = "r" /\ s[4] = "t" /\ s[5] = "s"
    /\ s[6] = "/"

Fetches == {n \in DOMAIN trace : trace[n].op = "GetObject"}
Posts == {n \in DOMAIN trace : trace[n].op = "PostWebhook"}
Lookups == {n \in DOMAIN trace : trace[n].op = "Get"}

FetchesOf(j) == {n \in Fetches : trace[n].idx = j}
PostsOf(j) == {n \in Posts : trace[n].idx = j}

Logged(msg, j) ==
    \E n \in DOMAIN trace :
        trace[n].op = "log" /\ trace[n].url = msg /\ trace[n].idx = j

Skipped(j) == Logged("skipping_file_outside_prefix", j)

\* the prefix test of record j has been made
Filtered(j) == idx > j \/ (idx = j /\ pc # "HasPrefix")

\* record j is past the point where the code unescapes its key
Unescaped(j) == idx > j \/ (idx = j /\ pc \notin {"HasPrefix", "PathUnescape"})

\* the loop has left record j behind and gone on
Passed(j) == idx > j \/ (idx = j /\ pc = "range")

\* Handler has returned an error
ReturnedError == pc = "done" /\ ret # "nil"

\* Handler is done with the batch: it walked all of it, or returned an error
BatchWalked == pc = "done" => (idx = N \/ ret # "nil")

-----------------------------------------------------------------------------
(* C1 *)

\* C1: a record whose leaf entry decodes but carries no X.509 certificate gets
\* no notification and raises no error, and the later records of the batch
\* are still processed: when Handler has returned after such a record, it
\* either walked the whole batch or returned the error of a later record.
C1_PrecertSkippedBatchContinues ==
    \A n \in Fetches :
        (trace[n].ok /\ trace[n].obj.kind = "precert") =>
            LET j == trace[n].idx
            IN  /\ PostsOf(j) = {}
                /\ (idx = j => ~ReturnedError)
                /\ (pc = "done" => (idx = N \/ (idx > j /\ ret # "nil")))

-----------------------------------------------------------------------------
(* C2 *)

FatalKinds == {"corrupt", "badleaf", "badder"}

\* the statements at which Handler can be while the failure of record j's
\* object has not come out yet
BeforeFailure(kind) ==
    CASE kind = "corrupt" -> {"Decode"}
      [] kind = "badleaf" -> {"Decode", "Close", "LogEntryFromLeaf"}
      [] kind = "badder" -> {"Decode", "Close", "LogEntryFromLeaf",
                              "CheckX509Cert", "ParseCertificate"}

ErrorOf(kind) ==
    CASE kind = "corrupt" -> "DecodeError"
      [] kind = "badleaf" -> "LeafError"
      [] kind = "badder" -> "ParseError"

\* C2: when the fetch, the JSON decode, the log-entry reconstruction or the
\* X.509 parse of a record fails, Handler returns that error at the failing
\* statement, never goes on to a later record, and the transport is invoked
\* neither for that record nor for a later one.
C2_FatalErrorAborts ==
    \A n \in Fetches :
        LET j == trace[n].idx
            e == trace[n]
        IN  (~e.ok \/ e.obj.kind \in FatalKinds) =>
                /\ idx = j
                /\ \A m \in Posts : trace[m].idx < j
                /\ IF ~e.ok
                   THEN pc = "done" /\ ret = "GetObjectError"
                   ELSE \/ pc \in BeforeFailure(e.obj.kind)
                        \/ pc = "done" /\ ret = ErrorOf(e.obj.kind)

\* a decode failure on the first of two records, the second one eligible:
\* Handler has returned the error and the second record was never reached
C2_Witness ==
    /\ N = 2
    /\ BeginsWithCerts(RawKey(2))
    /\ pc = "done" /\ ret = "DecodeError" /\ idx = 1
    /\ \E n \in FetchesOf(1) : trace[n].obj.kind = "corrupt"

-----------------------------------------------------------------------------
(* C3 *)

\* C3 as stated: the key is unescaped first and the prefix test reads the
\* unescaped key, so a record whose key unescapes is skipped exactly when the
\* unescaped key lacks the prefix.
C3_FilterOnUnescapedKey ==
    \A j \in 1..N :
        (Filtered(j) /\ unescape(RawKey(j)).ok) =>
            (Skipped(j) <=> ~BeginsWithCerts(unescape(RawKey(j)).s))

\* C3 amended: the prefix test reads the key as it arrives, still
\* percent-encoded, and only a key that passed is unescaped: a record is
\* skipped exactly when its raw key lacks the prefix, a skipped record is never
\* fetched (also when its unescaped form begins with the prefix), and the
\* fetch of a record that passed uses the unescaped key.
C3_FilterOnRawKey ==
    \A j \in 1..N :
        /\ Filtered(j) => (Skipped(j) <=> ~BeginsWithCerts(RawKey(j)))
        /\ Skipped(j) => FetchesOf(j) = {}
        /\ \A n \in FetchesOf(j) :
              /\ BeginsWithCerts(RawKey(j))
              /\ unescape(RawKey(j)).ok
              /\ trace[n].key = unescape(RawKey(j)).s

\* a record whose raw key lacks the prefix and whose unescaped key has it was
\* skipped, and the loop went on
C3_Witness ==
    \E j \in 1..N :
        /\ Passed(j) /\ Skipped(j)
        /\ ~BeginsWithCerts(RawKey(j))
        /\ unescape(RawKey(j)).ok
        /\ BeginsWithCerts(unescape(RawKey(j)).s)

-----------------------------------------------------------------------------
(* C4 *)

\* C4 as stated: a record whose key does not unescape makes Handler return an
\* error, with no fetch and no delivery for that record or a later one.
C4_UnescapeFailureAborts ==
    \A j \in 1..N :
        (Unescaped(j) /\ ~unescape(RawKey(j)).ok) =>
            /\ ReturnedError
            /\ idx = j
            /\ \A n \in Fetches \cup Posts : trace[n].idx < j

\* C4 amended: a record whose raw key begins with the prefix and does not
\* unescape makes Handler return the escape error, with no fetch and no
\* delivery for that record or a later one; a record whose raw key lacks the
\* prefix is skipped before its key is unescaped, so its malformed escape
\* raises no error and the loop goes on.
C4_UnescapeFailureOfEligibleKeyAborts ==
    \A j \in 1..N :
        (Unescaped(j) /\ ~unescape(RawKey(j)).ok) =>
            IF BeginsWithCerts(RawKey(j))
            THEN /\ pc = "done" /\ ret = "EscapeError"
                 /\ idx = j
                 /\ \A n \in Fetches \cup Posts : trace[n].idx < j
            ELSE /\ Skipped(j)
                 /\ FetchesOf(j) = {} /\ PostsOf(j) = {}
                 /\ idx = j => ~ReturnedError

\* the key of the first of two records has the prefix and a malformed escape;
\* the second record is eligible; Handler has returned the escape error
C4_Witness ==
    /\ N = 2
    /\ BeginsWithCerts(RawKey(1)) /\ ~unescape(RawKey(1)).ok
    /\ BeginsWithCerts(RawKey(2)) /\ unescape(RawKey(2)).ok
    /\ pc = "done" /\ ret = "EscapeError" /\ idx = 1

-----------------------------------------------------------------------------
(* C5 *)

\* the key of record j does not match the prefix, as it arrives or unescaped
OutsidePrefix(j) ==
    \/ ~BeginsWithCerts(RawKey(j))
    \/ unescape(RawKey(j)).ok /\ ~BeginsWithCerts(unescape(RawKey(j)).s)

\* C5: a record whose key does not match the prefix is never fetched and never
\* delivered, raises no error, and the loop goes on with the next record (or
\* returns success after the last one).
C5_OutsidePrefixSkipped ==
    \A j \in 1..N :
        (Filtered(j) /\ OutsidePrefix(j)) =>
            /\ FetchesOf(j) = {} /\ PostsOf(j) = {}
            /\ idx = j => (pc = "range" \/ (pc = "done" /\ ret = "nil" /\ j = N))

\* the first of two records was outside the prefix and the second one was
\* fetched
C5_Witness ==
    /\ N = 2
    /\ ~BeginsWithCerts(RawKey(1))
    /\ FetchesOf(1) = {} /\ PostsOf(1) = {}
    /\ \E n \in FetchesOf(2) : trace[n].ok
-----------------------------------------------------------------------------
(* C6 *)

\* something other than a delivery failed: the configuration, a key of an
\* eligible record that does not unescape, a fetch, or an object that does not
\* decode to a certificate with its text
OtherFailure ==
    \/ \E n \in DOMAIN trace : trace[n].op = "LoadDefaultConfig" /\ ~trace[n].ok
    \/ \E j \in 1..N :
          Unescaped(j) /\ BeginsWithCerts(RawKey(j)) /\ ~unescape(RawKey(j)).ok
    \/ \E n \in Fetches :
          ~trace[n].ok \/ trace[n].obj.kind \in FatalKinds \cup {"badtext"}

\* C6: a failed delivery never aborts the batch: after it the loop goes on
\* with the next record (or returns success after the last one), and when
\* nothing but deliveries failed, Handler returns success.
C6_DeliveryFailureNonFatal ==
    /\ \A n \in Posts :
          ~trace[n].ok =>
              (idx = trace[n].idx =>
                  \/ pc = "range"
                  \/ pc = "done" /\ ret = "nil" /\ idx = N)
    /\ (pc = "done" /\ ~OtherFailure) => ret = "nil"

\* the delivery of the first record failed, the second record was delivered
\* all the same, and Handler returned success
C6_Witness ==
    /\ pc = "done" /\ ret = "nil"
    /\ \E n \in PostsOf(1) : ~trace[n].ok
    /\ \E n \in PostsOf(2) : trace[n].ok

-----------------------------------------------------------------------------
(* C7 *)

LookupFailed == \E n \in Lookups : ~trace[n].ok

\* C7: when the endpoint lookup failed, Handler does not return there but
\* enters the loop; every eligible record the loop has gone past was fetched
\* and decoded and carried a certificate, and a delivery was attempted for it
\* with the empty address, which failed without stopping the loop.
C7_UnresolvedEndpointProceeds ==
    LookupFailed =>
        /\ idx = 0 => (pc = "range" \/ (pc = "done" /\ ret = "nil" /\ N = 0))
        /\ ret # "GetError"
        /\ \A n \in Posts : ~trace[n].ok /\ trace[n].url = NoURL
        /\ \A j \in 1..N :
              (Passed(j) /\ BeginsWithCerts(RawKey(j))) =>
                  \E n \in FetchesOf(j) :
                      /\ trace[n].ok /\ trace[n].obj.kind = "cert"
                      /\ \E m \in PostsOf(j) : m > n /\ ~trace[m].ok

\* the lookup failed and two records with certificates each had their failed
\* delivery attempt, after which Handler returned success
C7_Witness ==
    /\ LookupFailed
    /\ webhookURL = NoURL
    /\ pc = "done" /\ ret = "nil"
    /\ PostsOf(1) # {} /\ PostsOf(2) # {}

-----------------------------------------------------------------------------
(* C8 *)

\* C8: the endpoint is looked up at most once, and exactly once before the
\* first record is examined; webhookURL keeps the value that lookup returned
\* and every delivery attempt is made to it.
C8_EndpointResolvedOnce ==
    /\ Cardinality(Lookups) <= 1
    /\ (idx >= 1 \/ pc = "range") => Cardinality(Lookups) = 1
    /\ \A n \in Lookups :
          /\ webhookURL = trace[n].url
          /\ \A m \in DOMAIN trace : trace[m].idx >= 1 => n < m
          /\ \A m \in Posts : trace[m].url = trace[n].url

\* two records were delivered to the address the single lookup returned
C8_Witness ==
    /\ webhookURL \in URLs
    /\ Cardinality(Lookups) = 1
    /\ \E n \in PostsOf(1) : trace[n].url = webhookURL
    /\ \E n \in PostsOf(2) : trace[n].url = webhookURL

-----------------------------------------------------------------------------
(* C9 *)

\* C9: the calls and log lines of the records come in input order, a record
\* being done with before the next one is touched; a record is fetched at most
\* once, under its own unescaped key, and delivered at most once, and a
\* delivery is made only for a record whose raw key has the prefix, whose key
\* unescapes and whose earlier fetch returned a certificate.
C9_SequentialInOrder ==
    /\ \A n, m \in DOMAIN trace : n < m => trace[n].idx <= trace[m].idx
    /\ \A n \in DOMAIN trace : trace[n].idx <= idx
    /\ \A j \in 1..N :
          /\ Cardinality(FetchesOf(j)) <= 1
          /\ Cardinality(PostsOf(j)) <= 1
          /\ \A n \in FetchesOf(j) : trace[n].key = unescape(RawKey(j)).s
          /\ \A m \in PostsOf(j) :
                /\ BeginsWithCerts(RawKey(j))
                /\ unescape(RawKey(j)).ok
                /\ \E n \in FetchesOf(j) :
                      n < m /\ trace[n].ok /\ trace[n].obj.kind = "cert"

\* the trace of a batch of two delivered records: fetch and delivery of the
\* first, then fetch and delivery of the second
C9_Witness ==
    \E f1 \in FetchesOf(1), p1 \in PostsOf(1), f2 \in FetchesOf(2),
       p2 \in PostsOf(2) : f1 < p1 /\ p1 < f2 /\ f2 < p2

-----------------------------------------------------------------------------
(* C10 *)

Position(text, lit) == CHOOSE n \in DOMAIN text : text[n] = lit

\* the part of the message text between "DNS Names:" and "Not Before:"
DNSField(text) ==
    SubSeq(text, Position(text, LitDNS) + 1, Position(text, LitNotBefore) - 1)

RECURSIVE TotalLen(_)
TotalLen(names) == IF names = <<>> THEN 0 ELSE Len(Head(names)) + TotalLen(Tail(names))

\* where the k-th name starts in the comma-space join of names, less one
Offset(names, k) == TotalLen(SubSeq(names, 1, k - 1)) + 2 * (k - 1)

\* f is the names in order, with a comma and a space between neighbours and
\* nothing else
IsCommaSpaceJoin(f, names) ==
    /\ Len(f) = IF names = <<>> THEN 0
                ELSE TotalLen(names) + 2 * (Len(names) - 1)
    /\ \A k \in DOMAIN names :
          /\ SubSeq(f, Offset(names, k) + 1, Offset(names, k) + Len(names[k]))
                = names[k]
          /\ k < Len(names) =>
                /\ f[Offset(names, k) + Len(names[k]) + 1] = ","
                /\ f[Offset(names, k) + Len(names[k]) + 2] = " "

\* C10: the DNS-names field of every message is the comma-space join of the
\* SAN DNS names of the certificate fetched for that record, in order (empty
\* for no names), and every record with a certificate that the loop has gone
\* past had a message posted.
C10_DNSNamesField ==
    \A j \in 1..N :
        \A n \in FetchesOf(j) :
            (trace[n].ok /\ trace[n].obj.kind = "cert") =>
                /\ Passed(j) => PostsOf(j) # {}
                /\ \A m \in PostsOf(j) :
                      IsCommaSpaceJoin(DNSField(trace[m].text), trace[n].obj.dns)

\* one message for a certificate with two different names, its field being
\* the first, a comma, a space, the second; and one for a certificate with no
\* names, its field empty
C10_Witness ==
    /\ \E n \in Fetches, m \in Posts :
          /\ trace[n].idx = trace[m].idx
          /\ Len(trace[n].obj.dns) = 2
          /\ trace[n].obj.dns[1] # trace[n].obj.dns[2]
          /\ DNSField(trace[m].text)
                = trace[n].obj.dns[1] \o <<",", " ">> \o trace[n].obj.dns[2]
    /\ \E n \in Fetches, m \in Posts :
          /\ trace[n].idx = trace[m].idx
          /\ trace[n].ok /\ trace[n].obj.kind = "cert" /\ trace[n].obj.dns = <<>>
          /\ DNSField(trace[m].text) = <<>>
-----------------------------------------------------------------------------
(* C11 *)

\* C11: the batch is not atomic.  When Handler has returned an error at
\* record idx, every earlier record whose key passed the filter was fetched,
\* carried a certificate and had its delivery attempted before the failing
\* record was touched; those attempts stand in the history when Handler
\* returns.
C11_EarlierDeliveriesStand ==
    (ReturnedError /\ idx >= 1) =>
        \A j \in 1..(idx - 1) :
            BeginsWithCerts(RawKey(j)) =>
                \E n \in FetchesOf(j), m \in PostsOf(j) :
                    /\ trace[n].ok /\ trace[n].obj.kind = "cert"
                    /\ n < m
                    /\ \A k \in DOMAIN trace : trace[k].idx = idx => m < k

\* Handler returned an error at the second record after the notification of
\* the first record had been sent
C11_Witness ==
    /\ ReturnedError /\ idx = 2
    /\ \E m \in PostsOf(1) : trace[m].ok /\ trace[m].url \in URLs
-----------------------------------------------------------------------------
(* C12 *)

\* C12: every body a successful fetch returned is closed before the next
\* object is fetched and before Handler returns, on every path, the path on
\* which the JSON decode of that body fails included.
C12_BodyClosedOnEveryPath ==
    pc \in {"GetObject", "done"} => open = {}

-----------------------------------------------------------------------------
(* C13 *)

ConfigFailed ==
    \E n \in DOMAIN trace : trace[n].op = "LoadDefaultConfig" /\ ~trace[n].ok

\* C13: when loading the client configuration fails, Handler returns that
\* error at once: the endpoint is not looked up, no record is examined,
\* nothing is fetched and nothing is delivered.
C13_ConfigErrorReturnsFirst ==
    ConfigFailed =>
        /\ pc = "done" /\ ret = "ConfigError"
        /\ idx = 0
        /\ webhookURL = NoURL
        /\ Len(trace) = 1
        /\ Lookups = {} /\ Fetches = {} /\ Posts = {}

\* the configuration failed for a batch of two eligible records, and Handler
\* has returned the configuration error
C13_Witness ==
    /\ ConfigFailed
    /\ N = 2
    /\ BeginsWithCerts(RawKey(1)) /\ unescape(RawKey(1)).ok
    /\ BeginsWithCerts(RawKey(2)) /\ unescape(RawKey(2)).ok
    /\ pc = "done" /\ ret = "ConfigError"
-----------------------------------------------------------------------------
(* C14 *)

\* Handler runs on one goroutine and none of its statements waits for
\* another: whenever a statement is left to execute, one is executed.
FairSpec == Spec /\ WF_vars(Next)

\* what Handler can return: nil or one of its errors
Results == {"nil", "ConfigError", "EscapeError", "GetObjectError", "DecodeError",
            "LeafError", "ParseError", "CertTextError"}

\* C14: for every batch and every combination of collaborator outcomes,
\* Handler eventually returns; what it returns is nil or an error; nothing
\* happens after the return, so there is exactly one result; and each step
\* of the loop takes the record after the one taken before, so no record is
\* examined twice.
C14_TerminatesWithOneResult ==
    /\ <>(pc = "done")
    /\ [](pc = "done" <=> ret \in Results)
    /\ [](ret \in Results \cup {NotReturned})
    /\ [][pc # "done" /\ ret = NotReturned]_vars
    /\ [][idx' # idx => (pc = "range" /\ idx' = idx + 1 /\ idx' <= N)]_vars
    /\ [][(pc = "range" /\ pc' # "done") => idx' = idx + 1]_vars

\* Handler has returned success after walking a batch of two records, the
\* first delivered, the second skipped
C14_Witness ==
    /\ N = 2
    /\ pc = "done" /\ ret = "nil" /\ idx = 2
    /\ PostsOf(1) # {}
    /\ Skipped(2)
====
